---- MODULE Spec2Model ----
(***************************************************************************)
(* Ingest pipeline of Trading_Ops_PnL_Reconciliation (src/src/01_ingest):  *)
(* schemas.py (the schema registry), data_validation.py (normalizers and   *)
(* validators) and loaders.py (read_any, load_fills, load_prices,          *)
(* load_fees).                                                             *)
(*                                                                         *)
(* Every load call is a synchronous, self-contained transformation, so one *)
(* call is one action.  A call's outcome is either a raised exception or   *)
(* a returned DataFrame.  pandas semantics are those of pandas 1.x / 2.x   *)
(* (astype(str) turns a missing value into the text "nan").                *)
(***************************************************************************)
EXTENDS Integers, Sequences, FiniteSets, TLC

VARIABLES schemas, call, result

vars == <<schemas, call, result>>

\* ------------------------------------------------------------------ bounds
\* Longest table drawn from the full row pool of a record kind.
MaxRows == 2
\* Longest table drawn from the small pool of key-variant rows.
MaxKeyRows == 4

\* ----------------------------------------------------------------- strings
\* A Python str is a sequence of one-character strings.
Lowers == <<"a","b","c","d","e","f","g","h","i","j","k","l","m",
            "n","o","p","q","r","s","t","u","v","w","x","y","z">>
Uppers == <<"A","B","C","D","E","F","G","H","I","J","K","L","M",
            "N","O","P","Q","R","S","T","U","V","W","X","Y","Z">>
Digits == <<"0","1","2","3","4","5","6","7","8","9">>

IndexIn(seq, c) == IF \E i \in DOMAIN seq : seq[i] = c
                   THEN CHOOSE i \in DOMAIN seq : seq[i] = c
                   ELSE 0

UpperChar(c) == IF IndexIn(Lowers, c) # 0 THEN Uppers[IndexIn(Lowers, c)] ELSE c
LowerChar(c) == IF IndexIn(Uppers, c) # 0 THEN Lowers[IndexIn(Uppers, c)] ELSE c

\* str.upper() / str.lower()
StrUpper(s) == [i \in DOMAIN s |-> UpperChar(s[i])]
StrLower(s) == [i \in DOMAIN s |-> LowerChar(s[i])]

IsSpace(c) == c = " "

RECURSIVE LStrip(_)
LStrip(s) == IF s # <<>> /\ IsSpace(Head(s)) THEN LStrip(Tail(s)) ELSE s

RECURSIVE RStrip(_)
RStrip(s) == IF s # <<>> /\ IsSpace(s[Len(s)])
             THEN RStrip(SubSeq(s, 1, Len(s) - 1))
             ELSE s

\* str.strip()
StrStrip(s) == RStrip(LStrip(s))

\* Code point order of the characters the model uses: space, '-', '.', '_',
\* digits, upper case, lower case.
CharRank(c) ==
    IF c = " " THEN 0
    ELSE IF c = "-" THEN 1
    ELSE IF c = "." THEN 2
    ELSE IF IndexIn(Digits, c) # 0 THEN 10 + IndexIn(Digits, c)
    ELSE IF IndexIn(Uppers, c) # 0 THEN 30 + IndexIn(Uppers, c)
    ELSE IF c = "_" THEN 60
    ELSE IF IndexIn(Lowers, c) # 0 THEN 70 + IndexIn(Lowers, c)
    ELSE 100

\* Python's str comparison: s < t, lexicographic by code point.
RECURSIVE StrLess(_, _)
StrLess(s, t) ==
    IF t = <<>> THEN FALSE
    ELSE IF s = <<>> THEN TRUE
    ELSE IF CharRank(Head(s)) # CharRank(Head(t))
         THEN CharRank(Head(s)) < CharRank(Head(t))
         ELSE StrLess(Tail(s), Tail(t))

\* ------------------------------------------------------------------- cells
\* One cell of a DataFrame.  t is the kind of value:
\*   "nan"  missing (None / NaN),        "nat"  NaT,
\*   "str"  a str (s),                   "num"  a number (n),
\*   "dt"   a raw date-time text: wall clock n hours after the epoch, written
\*          with UTC offset z hours (all texts of a column in one format),
\*   "ts"   a tz-aware Timestamp: instant n hours after the epoch, shown in
\*          the zone of offset z,        "date" a datetime.date: day n.
Cell(t, s, n, z) == [t |-> t, s |-> s, n |-> n, z |-> z]
NaN == Cell("nan", <<>>, 0, 0)
NaT == Cell("nat", <<>>, 0, 0)
S(s) == Cell("str", s, 0, 0)
N(n) == Cell("num", <<>>, n, 0)
DT(n, z) == Cell("dt", <<>>, n, z)
TS(n, z) == Cell("ts", <<>>, n, z)
Date(n) == Cell("date", <<>>, n, 0)

\* pandas isna()
isna(c) == c.t \in {"nan", "nat"}

RECURSIVE NatText(_)
NatText(n) == IF n < 10 THEN <<Digits[n + 1]>>
              ELSE NatText(n \div 10) \o <<Digits[(n % 10) + 1]>>

\* str(x) of a Python number
NumText(n) == IF n < 0 THEN <<"-">> \o NatText(-n) ELSE NatText(n)

\* Series.astype(str), one cell: a missing value becomes the text "nan".
astype_str(c) ==
    CASE c.t = "str" -> c
      [] c.t = "num" -> S(NumText(c.n))
      [] c.t = "nan" -> S(<<"n", "a", "n">>)
      [] c.t = "nat" -> S(<<"N", "a", "T">>)
      [] OTHER -> S(<<"?">>)

\* Series.str.strip() / .str.upper() / .str.len() on a str cell
str_strip(c) == S(StrStrip(c.s))
str_upper(c) == S(StrUpper(c.s))
str_len(c) == Len(c.s)

AllDigits(s) == s # <<>> /\ \A i \in DOMAIN s : IndexIn(Digits, s[i]) # 0

RECURSIVE DigitsValue(_)
DigitsValue(s) == IF s = <<>> THEN 0
                  ELSE 10 * DigitsValue(SubSeq(s, 1, Len(s) - 1))
                       + (IndexIn(Digits, s[Len(s)]) - 1)

\* pd.to_numeric(errors="coerce"), one cell: numbers pass, numerals parse
\* (surrounding blanks ignored), anything else becomes NaN.
to_numeric(c) ==
    CASE c.t = "num" -> c
      [] c.t = "str" ->
           LET s == StrStrip(c.s) IN
           IF AllDigits(s) THEN N(DigitsValue(s))
           ELSE IF s # <<>> /\ Head(s) = "-" /\ AllDigits(Tail(s))
                THEN N(-DigitsValue(Tail(s)))
                ELSE NaN
      [] OTHER -> NaN

\* pd.to_datetime(errors="coerce", utc=True), one cell: the instant, in UTC;
\* anything unparsable becomes NaT.
to_datetime_utc(c) == IF c.t = "dt" THEN TS(c.n - c.z, 0) ELSE NaT

\* pd.to_datetime(errors="coerce").dt.date, one cell: the calendar day of the
\* wall clock, the time of day dropped.
to_date(c) == IF c.t = "dt" THEN Date(c.n \div 24) ELSE NaT

\* tz_convert taking the UTC clock reading for a reading in zone tz
\* (tz_localize in place of tz_convert)
tz_localize_as(c, off) == IF c.t = "ts" THEN TS(c.n - off, off) ELSE c

\* Series.dt.tz_convert(tz), one cell: same instant, shown in zone tz.
tz_convert(c, off) == IF c.t = "ts" THEN TS(c.n, off) ELSE c

\* -------------------------------------------------------------- DataFrames
\* A DataFrame: its column names in order, and its rows, each a function from
\* the column names to cells.
DF(columns, rows) == [columns |-> columns, rows |-> rows]
EmptyDF == DF(<<>>, <<>>)

Range(seq) == {seq[i] : i \in DOMAIN seq}
\* Series.any() / Series.all() of a boolean Series
AnyOf(seq) == \E i \in DOMAIN seq : seq[i]
AllOf(seq) == \A i \in DOMAIN seq : seq[i]

\* df[col]
Column(df, col) == [i \in DOMAIN df.rows |-> df.rows[i][col]]

\* df[col] = cells
SetColumn(df, col, cells) ==
    DF(df.columns, [i \in DOMAIN df.rows |-> [df.rows[i] EXCEPT ![col] = cells[i]]])

\* df.loc[:, list(cols)]
Project(df, cols) ==
    DF(cols, [i \in DOMAIN df.rows |-> [c \in Range(cols) |-> df.rows[i][c]]])

\* The elements of seq whose flag is set, in order.
RECURSIVE SelectWhere(_, _)
SelectWhere(seq, flags) ==
    IF seq = <<>> THEN <<>>
    ELSE LET rest == SelectWhere(SubSeq(seq, 1, Len(seq) - 1),
                                 SubSeq(flags, 1, Len(flags) - 1))
         IN IF flags[Len(seq)] THEN Append(rest, seq[Len(seq)]) ELSE rest

\* Series.duplicated(): every occurrence of a value after its first.
duplicated(seq) == [i \in DOMAIN seq |-> \E j \in 1..(i - 1) : seq[j] = seq[i]]

\* .unique() left out
not_unique(seq) == seq

\* Series.unique(): the distinct values in order of first appearance.
unique(seq) == SelectWhere(seq, [i \in DOMAIN seq |-> ~duplicated(seq)[i]])

\* ----------------------------------------------------------------- columns
c_trade_id == <<"t","r","a","d","e","_","i","d">>
c_timestamp == <<"t","i","m","e","s","t","a","m","p">>
c_symbol == <<"s","y","m","b","o","l">>
c_side == <<"s","i","d","e">>
c_qty == <<"q","t","y">>
c_price == <<"p","r","i","c","e">>
c_date == <<"d","a","t","e">>
c_close == <<"c","l","o","s","e">>
c_mid == <<"m","i","d">>
c_bid == <<"b","i","d">>
c_ask == <<"a","s","k">>
c_fees == <<"f","e","e","s">>
c_rebates == <<"r","e","b","a","t","e","s">>
c_exchange_fees == <<"e","x","c","h","a","n","g","e","_","f","e","e","s">>
c_broker_commissions == <<"b","r","o","k","e","r","_","c","o","m","m","i","s","s","i","o","n","s">>
c_liquidity_rebates == <<"l","i","q","u","i","d","i","t","y","_","r","e","b","a","t","e","s">>
c_routing_fees == <<"r","o","u","t","i","n","g","_","f","e","e","s">>
\* a column no schema names
c_note == <<"n","o","t","e">>

\* --------------------------------------------------------- schema registry
\* The class attributes of FillsSchema, PricesSchema and FeesSchema as
\* schemas.py defines them: each class has optional_cols and nothing else.
FillsSchema ==
    [optional_cols |-> <<c_trade_id, c_timestamp, c_symbol, c_side, c_qty, c_price>>]
PricesSchema ==
    [optional_cols |-> <<c_date, c_symbol, c_close, c_timestamp, c_mid, c_bid, c_ask>>]
FeesSchema ==
    [optional_cols |-> <<c_trade_id, c_exchange_fees, c_broker_commissions,
                         c_liquidity_rebates, c_routing_fees>>]

\* The module-level objects FILLS, PRICES, FEES of schemas.py.
ShippedSchemas == [FILLS |-> FillsSchema, PRICES |-> PricesSchema, FEES |-> FeesSchema]

\* The required column sets the specification's Schema Registry describes
\* (data model of Fill, PriceMark and FeeRecord); schemas.py does not define
\* them.  For prices the data model makes timestamp optional, so it is not
\* listed.
DeclaredRequiredCols ==
    [FILLS |-> <<c_trade_id, c_timestamp, c_symbol, c_side, c_qty, c_price>>,
     PRICES |-> <<c_date, c_symbol, c_close>>,
     FEES |-> <<c_trade_id, c_fees, c_rebates>>]

\* The registry completed as the specification describes it: every schema
\* also has required_cols.
DeclaredSchemas ==
    [k \in {"FILLS", "PRICES", "FEES"} |->
        [required_cols |-> DeclaredRequiredCols[k],
         optional_cols |-> ShippedSchemas[k].optional_cols]]

\* hasattr(<schema object>, attr)
HasAttr(obj, attr) == attr \in DOMAIN schemas[obj]

\* ---------------------------------------------------------------- outcomes
\* What a function call ends in: an exception raised (its class, the record
\* kind its message starts with, the message text and the values the message
\* lists) or a value returned.  stages is the sequence of pipeline steps the
\* call went through.
Raise(kind, name, text, vals, stages) ==
    [out |-> "raise", kind |-> kind, name |-> name, text |-> text,
     vals |-> vals, df |-> EmptyDF, stages |-> stages]
Return(df, stages) ==
    [out |-> "return", kind |-> "", name |-> "", text |-> "", vals |-> <<>>,
     df |-> df, stages |-> stages]
Raised(r) == r.out = "raise"

\* The outcome r of a step that ran after the steps of an earlier outcome.
After(prev, r) == [r EXCEPT !.stages = prev.stages \o @]

\* Evaluating <schema object>.required_cols when the class has no such
\* attribute.
AttributeError ==
    Raise("AttributeError", "", "object has no attribute 'required_cols'",
          <<>>, <<"getattr">>)

\* --------------------------------------------------------- data_validation
\* missing = [c for c in required_cols if c not in df.columns]
MissingColumns(df, required_cols) ==
    SelectWhere(required_cols,
                [i \in DOMAIN required_cols |-> required_cols[i] \notin Range(df.columns)])

require_columns(df, required_cols, name) ==
    LET missing == MissingColumns(df, required_cols) IN
    IF missing # <<>>
    THEN Raise("DataValidationError", name, "missing required columns",
               [i \in DOMAIN missing |-> S(missing[i])], <<"require_columns">>)
    ELSE Return(df, <<"require_columns">>)

\* Series.astype(str).str.strip() and .astype(str).str.strip().str.upper()
StripColumn(df, col) ==
    SetColumn(df, col, [i \in DOMAIN df.rows |-> str_strip(astype_str(df.rows[i][col]))])
StripUpperColumn(df, col) ==
    SetColumn(df, col,
              [i \in DOMAIN df.rows |-> str_upper(str_strip(astype_str(df.rows[i][col])))])
NumericColumn(df, col) ==
    SetColumn(df, col, [i \in DOMAIN df.rows |-> to_numeric(df.rows[i][col])])
DatetimeUtcColumn(df, col) ==
    SetColumn(df, col, [i \in DOMAIN df.rows |-> to_datetime_utc(df.rows[i][col])])
DateColumn(df, col) ==
    SetColumn(df, col, [i \in DOMAIN df.rows |-> to_date(df.rows[i][col])])
TzConvertColumn(df, col, off) ==
    SetColumn(df, col, [i \in DOMAIN df.rows |-> tz_convert(df.rows[i][col], off)])

\* The column conversions of normalize_fills, on a copy of df.
CoerceFills(df) ==
    LET o1 == StripColumn(df, c_trade_id)
        o2 == StripUpperColumn(o1, c_symbol)
        o3 == StripUpperColumn(o2, c_side)
        o4 == NumericColumn(o3, c_qty)
        o5 == NumericColumn(o4, c_price)
    IN DatetimeUtcColumn(o5, c_timestamp)

normalize_fills(df) ==
    IF ~HasAttr("FILLS", "required_cols") THEN AttributeError
    ELSE
    LET rc == After(Return(df, <<"getattr">>),
                    require_columns(df, schemas.FILLS.required_cols, "fills")) IN
    IF Raised(rc) THEN rc
    ELSE After(rc, Return(CoerceFills(df), <<"coerce">>))

\* tid.isna().any() or (tid.astype(str).str.len() == 0).any()
EmptyOrNaN(cells) ==
    \/ AnyOf([i \in DOMAIN cells |-> isna(cells[i])])
    \/ AnyOf([i \in DOMAIN cells |-> str_len(astype_str(cells[i])) = 0])

\* the positivity check with < 0 in place of <= 0
NaNOrNegativeOnly(cells) ==
    \/ AnyOf([i \in DOMAIN cells |-> isna(cells[i])])
    \/ AnyOf([i \in DOMAIN cells |-> ~isna(cells[i]) /\ cells[i].n < 0])

\* col.isna().any() or (col <= 0).any(); a comparison with NaN is False
NaNOrNotPositive(cells) ==
    \/ AnyOf([i \in DOMAIN cells |-> isna(cells[i])])
    \/ AnyOf([i \in DOMAIN cells |-> ~isna(cells[i]) /\ cells[i].n <= 0])

DVE(name, text, vals, stages) == Raise("DataValidationError", name, text, vals, stages)

validate_fills(df) ==
    IF ~HasAttr("FILLS", "required_cols") THEN AttributeError
    ELSE
    LET rc == After(Return(df, <<"getattr">>),
                    require_columns(df, schemas.FILLS.required_cols, "fills")) IN
    IF Raised(rc) THEN rc
    ELSE
    LET tid == Column(df, c_trade_id)
        dups == unique(SelectWhere(tid, duplicated(tid)))
        side == Column(df, c_side)
        mask == [i \in DOMAIN side |-> side[i] \in {S(<<"B">>), S(<<"S">>)}]
        bad_side == unique(SelectWhere(side, [i \in DOMAIN side |-> ~mask[i]]))
        st == rc.stages
    IN
    IF EmptyOrNaN(tid)
    THEN DVE("fills", "trade_id has empty/NaN values", <<>>, st \o <<"rule:trade_id">>)
    ELSE IF Len(dups) > 0
    THEN DVE("fills", "duplicate trade_ids", dups,
             st \o <<"rule:trade_id", "rule:unique">>)
    ELSE IF AnyOf([i \in DOMAIN df.rows |-> isna(df.rows[i][c_timestamp])])
    THEN DVE("fills", "timestamp has unparsable values", <<>>,
             st \o <<"rule:trade_id", "rule:unique", "rule:timestamp">>)
    ELSE IF ~AllOf(mask)
    THEN DVE("fills", "wrong or missing side values", bad_side,
             st \o <<"rule:trade_id", "rule:unique", "rule:timestamp", "rule:side">>)
    ELSE IF NaNOrNotPositive(Column(df, c_qty))
    THEN DVE("fills", "qty must be numeric and > 0", <<>>,
             st \o <<"rule:trade_id", "rule:unique", "rule:timestamp", "rule:side",
                     "rule:qty">>)
    ELSE IF NaNOrNotPositive(Column(df, c_price))
    THEN DVE("fills", "price must be numeric and > 0", <<>>,
             st \o <<"rule:trade_id", "rule:unique", "rule:timestamp", "rule:side",
                     "rule:qty", "rule:price">>)
    ELSE Return(df, st \o <<"rule:trade_id", "rule:unique", "rule:timestamp",
                            "rule:side", "rule:qty", "rule:price">>)

\* The column conversions of normalize_prices, on a copy of df.
CoercePrices(df) ==
    LET o1 == StripUpperColumn(df, c_symbol)
        o2 == DateColumn(o1, c_date)
        o3 == NumericColumn(o2, c_close)
    IN IF c_timestamp \in Range(o3.columns)
       THEN DatetimeUtcColumn(o3, c_timestamp)
       ELSE o3

normalize_prices(df) ==
    IF ~HasAttr("PRICES", "required_cols") THEN AttributeError
    ELSE
    LET rc == After(Return(df, <<"getattr">>),
                    require_columns(df, schemas.PRICES.required_cols, "prices")) IN
    IF Raised(rc) THEN rc
    ELSE After(rc, Return(CoercePrices(df), <<"coerce">>))

\* df.duplicated(subset=["date", "symbol"])
DuplicatedDateSymbol(df) ==
    duplicated([i \in DOMAIN df.rows |-> <<df.rows[i][c_date], df.rows[i][c_symbol]>>])

validate_prices(df) ==
    IF ~HasAttr("PRICES", "required_cols") THEN AttributeError
    ELSE
    LET rc == After(Return(df, <<"getattr">>),
                    require_columns(df, schemas.PRICES.required_cols, "prices")) IN
    IF Raised(rc) THEN rc
    ELSE
    LET st == rc.stages IN
    IF AnyOf([i \in DOMAIN df.rows |-> isna(df.rows[i][c_date])])
    THEN DVE("prices", "date has unparsable values", <<>>, st \o <<"rule:date">>)
    ELSE IF EmptyOrNaN(Column(df, c_symbol))
    THEN DVE("prices", "symbol has empty/NaN values", <<>>,
             st \o <<"rule:date", "rule:symbol">>)
    ELSE IF NaNOrNotPositive(Column(df, c_close))
    THEN DVE("prices", "close must be numeric and > 0", <<>>,
             st \o <<"rule:date", "rule:symbol", "rule:close">>)
    ELSE IF AnyOf(DuplicatedDateSymbol(df))
    THEN DVE("prices", "duplicate rows for (date, symbol)", <<>>,
             st \o <<"rule:date", "rule:symbol", "rule:close", "rule:unique">>)
    ELSE Return(df, st \o <<"rule:date", "rule:symbol", "rule:close", "rule:unique">>)

\* fees = pd.to_numeric(df["fees"], errors="coerce");
\* fees.isna().any() or (fees > 0).any()
NaNOrPositive(cells) ==
    LET num == [i \in DOMAIN cells |-> to_numeric(cells[i])] IN
    \/ AnyOf([i \in DOMAIN num |-> isna(num[i])])
    \/ AnyOf([i \in DOMAIN num |-> ~isna(num[i]) /\ num[i].n > 0])

\* rebates = pd.to_numeric(df["rebates"], errors="coerce");
\* rebates.isna().any() or (rebates < 0).any()
NaNOrNegative(cells) ==
    LET num == [i \in DOMAIN cells |-> to_numeric(cells[i])] IN
    \/ AnyOf([i \in DOMAIN num |-> isna(num[i])])
    \/ AnyOf([i \in DOMAIN num |-> ~isna(num[i]) /\ num[i].n < 0])

validate_fees(df) ==
    IF ~HasAttr("FEES", "required_cols") THEN AttributeError
    ELSE
    LET rc == After(Return(df, <<"getattr">>),
                    require_columns(df, schemas.FEES.required_cols, "fees")) IN
    IF Raised(rc) THEN rc
    ELSE
    LET st == rc.stages IN
    IF EmptyOrNaN(Column(df, c_trade_id))
    THEN DVE("fees", "trade_id has empty/NaN values", <<>>, st \o <<"rule:trade_id">>)
    ELSE IF NaNOrPositive(Column(df, c_fees))
    THEN DVE("fees", "fees contain NaNs or are the wrong sign", <<>>,
             st \o <<"rule:trade_id", "rule:fees">>)
    ELSE IF NaNOrNegative(Column(df, c_rebates))
    THEN DVE("fees", "rebates contain NaNs or are the wrong sign", <<>>,
             st \o <<"rule:trade_id", "rule:fees", "rule:rebates">>)
    ELSE Return(df, st \o <<"rule:trade_id", "rule:fees", "rule:rebates">>)

\* ----------------------------------------------------------------- loaders
\* A path on disk: whether a file is there, the path's suffix, whether the
\* decoder can read the file, and the table the decoder yields.
Path(exists, suffix, corrupt, content) ==
    [exists |-> exists, suffix |-> suffix, corrupt |-> corrupt, content |-> content]

suffix_csv == <<".","c","s","v">>
suffix_parquet == <<".","p","a","r","q","u","e","t">>

\* pd.read_csv / pd.read_parquet: external decoders; a file they cannot read
\* makes them raise.
Decode(path, decoder) ==
    IF path.corrupt
    THEN Raise("DecodeError", "", "decoder failed", <<>>, <<"exists", decoder>>)
    ELSE Return(path.content, <<"exists", decoder>>)

\* read_any with the suffix looked at before the existence of the file
read_any_suffix_first(path) ==
    LET suf == StrLower(path.suffix) IN
    IF suf \notin {suffix_csv, suffix_parquet}
    THEN Raise("ValueError", "", "Unsupported document type", <<S(suf)>>, <<>>)
    ELSE IF ~path.exists
    THEN Raise("FileNotFoundError", "", "File not found", <<>>, <<"exists">>)
    ELSE Decode(path, IF suf = suffix_csv THEN "read_csv" ELSE "read_parquet")

read_any(path) ==
    IF ~path.exists
    THEN Raise("FileNotFoundError", "", "File not found", <<>>, <<"exists">>)
    ELSE
    LET suf == StrLower(path.suffix) IN
    IF suf = suffix_csv THEN Decode(path, "read_csv")
    ELSE IF suf = suffix_parquet THEN Decode(path, "read_parquet")
    ELSE Raise("ValueError", "", "Unsupported document type", <<S(suf)>>, <<"exists">>)

\* An optional timezone: tz=None, or a zone (its UTC offset in hours).
NoTz == [given |-> FALSE, off |-> 0]
Zone(off) == [given |-> TRUE, off |-> off]

\* a[key] < b[key] for the sort keys of sort_values(by)
RowLess(by, a, b) ==
    IF by = "timestamp" THEN a[c_timestamp].n < b[c_timestamp].n
    ELSE \/ a[c_date].n < b[c_date].n
         \/ /\ a[c_date].n = b[c_date].n
            /\ StrLess(a[c_symbol].s, b[c_symbol].s)

\* One insertion of the sort.  Rows with equal keys: sort_values uses an
\* unstable sort (kind="quicksort"), whose order of equal keys is fixed by
\* the platform's argsort; ties is that order, "stable" (input order kept) or
\* "reverse" (input order reversed).
RECURSIVE InsertRow(_, _, _, _)
InsertRow(sorted, r, by, ties) ==
    IF sorted = <<>> THEN <<r>>
    ELSE IF \/ RowLess(by, r, Head(sorted))
            \/ (ties = "reverse" /\ ~RowLess(by, Head(sorted), r))
         THEN <<r>> \o sorted
         ELSE <<Head(sorted)>> \o InsertRow(Tail(sorted), r, by, ties)

RECURSIVE SortRows(_, _, _)
SortRows(rows, by, ties) ==
    IF rows = <<>> THEN <<>>
    ELSE InsertRow(SortRows(SubSeq(rows, 1, Len(rows) - 1), by, ties),
                   rows[Len(rows)], by, ties)

\* the sort left out
not_sorted(df, by, ties) == df

\* df.sort_values(by).reset_index(drop=True)
sort_values(df, by, ties) == DF(df.columns, SortRows(df.rows, by, ties))

load_fills(path, tz, ties) ==
    LET r0 == read_any(path) IN
    IF Raised(r0) THEN r0
    ELSE
    LET r1 == After(r0, normalize_fills(r0.df)) IN
    IF Raised(r1) THEN r1
    ELSE
    \* normalize_fills parses with utc=True, so the column is tz-aware and
    \* only tz_convert applies
    LET r2 == IF tz.given
              THEN After(r1, Return(TzConvertColumn(r1.df, c_timestamp, tz.off),
                                    <<"tz_convert">>))
              ELSE r1
        r3 == After(r2, validate_fills(r2.df))
    IN
    IF Raised(r3) THEN r3
    ELSE
    LET out == Project(r2.df, schemas.FILLS.required_cols) IN
    After(r3, Return(sort_values(out, "timestamp", ties), <<"project", "sort">>))

load_prices(path, tz) ==
    LET r0 == read_any(path) IN
    IF Raised(r0) THEN r0
    ELSE
    LET r1 == After(r0, normalize_prices(r0.df)) IN
    IF Raised(r1) THEN r1
    ELSE
    LET r2 == IF c_timestamp \in Range(r1.df.columns) /\ tz.given
              THEN After(r1, Return(TzConvertColumn(r1.df, c_timestamp, tz.off),
                                    <<"tz_convert">>))
              ELSE r1
        r3 == After(r2, validate_prices(r2.df))
    IN
    IF Raised(r3) THEN r3
    ELSE
    LET out == Project(r2.df, schemas.PRICES.required_cols) IN
    After(r3, Return(sort_values(out, "date_symbol", "stable"), <<"project", "sort">>))

\* str(c).strip().lower() of a column name
NormalizeColumnName(c) == StrLower(StrStrip(c))

\* df.columns = [str(c).strip().lower() for c in df.columns]
RenameColumns(df) ==
    LET new == [i \in DOMAIN df.columns |-> NormalizeColumnName(df.columns[i])]
        old(c) == df.columns[CHOOSE i \in DOMAIN new : new[i] = c]
    IN DF(new, [i \in DOMAIN df.rows |-> [c \in Range(new) |-> df.rows[i][old(c)]]])

\* The column conversions of load_fees.
CoerceFees(df) ==
    LET d1 == StripColumn(df, c_trade_id)
        d2 == NumericColumn(d1, c_fees)
    IN NumericColumn(d2, c_rebates)

load_fees(path) ==
    LET r0 == read_any(path) IN
    IF Raised(r0) THEN r0
    ELSE
    LET df == RenameColumns(r0.df) IN
    IF ~HasAttr("FEES", "required_cols")
    THEN After(r0, After(Return(df, <<"rename_columns">>), AttributeError))
    ELSE
    LET missing == MissingColumns(df, schemas.FEES.required_cols)
        st == r0.stages \o <<"rename_columns", "getattr", "require_columns">>
    IN
    IF missing # <<>>
    THEN DVE("fees", "missing required columns",
             [i \in DOMAIN missing |-> S(missing[i])], st)
    ELSE
    LET d3 == CoerceFees(df)
        r3 == After(Return(d3, st \o <<"coerce">>), validate_fees(d3))
    IN
    IF Raised(r3) THEN r3
    ELSE After(r3, Return(Project(d3, schemas.FEES.required_cols), <<"project">>))

\* ------------------------------------------------------------------ inputs
SeqsUpTo(set, n) == UNION {[1..k -> set] : k \in 0..n}
SeqsFromTo(set, m, n) == UNION {[1..k -> set] : k \in m..n}

\* How many components of tuple x differ from those of tuple base.
Deviations(x, base) == Cardinality({i \in DOMAIN x : x[i] # base[i]})

t1 == <<"t","1">>
t2 == <<"t","2">>
t3 == <<"t","3">>
aapl == <<"a","a","p","l">>
msft == <<"m","s","f","t">>
junk == <<"x">>
blank == <<" ">>

\* Raw fills cells.  Each list starts with a well-formed value.
FillTradeIds == {S(t1), S(t2), S(t1 \o blank), S(blank), NaN}
FillTimestamps == {DT(1, 0), DT(0, 0), DT(2, 1), S(junk)}
FillSymbols == {S(aapl), NaN}
FillSides == {S(<<"b">>), S(<<" ","S">>), S(<<"x">>), S(<<"y">>), NaN}
FillQtys == {N(1), S(<<"2">>), N(0), S(junk)}
FillPrices == {N(1), N(-1), NaN}
FillBase == <<S(t1), DT(1, 0), S(aapl), S(<<"b">>), N(1), N(1)>>
FillWorst == <<NaN, S(junk), NaN, S(<<"x">>), N(0), NaN>>

FillRow(x) ==
    (c_trade_id :> x[1]) @@ (c_timestamp :> x[2]) @@ (c_symbol :> x[3])
    @@ (c_side :> x[4]) @@ (c_qty :> x[5]) @@ (c_price :> x[6])

\* Rows that differ from the well-formed row in at most one cell.
FillRowPool ==
    {FillRow(x) : x \in {y \in FillTradeIds \X FillTimestamps \X FillSymbols
                                \X FillSides \X FillQtys \X FillPrices :
                         Deviations(y, FillBase) <= 1}}

\* Rows that differ in their key cells only.
FillKeyPool ==
    {FillRow(<<x[1], x[2], S(aapl), S(<<"b">>), N(1), N(1)>>) :
        x \in {<<S(t1), DT(1, 0)>>, <<S(t1), DT(0, 0)>>,
               <<S(t2), DT(0, 0)>>, <<S(t3), DT(2, 1)>>}}

FillColumns == <<c_trade_id, c_timestamp, c_symbol, c_side, c_qty, c_price>>

\* The columns of cols that are not in drop, in order.
Without(cols, drop) ==
    SelectWhere(cols, [i \in DOMAIN cols |-> cols[i] \notin drop])

\* row restricted to the columns cols, plus a note column when extra
Shape(row, cols, extra) ==
    [c \in Range(cols) \cup (IF extra THEN {c_note} ELSE {}) |->
        IF c = c_note THEN S(junk) ELSE row[c]]

ShapeTable(rows, cols, extra) ==
    DF(IF extra THEN cols \o <<c_note>> ELSE cols,
       [i \in DOMAIN rows |-> Shape(rows[i], cols, extra)])

FillTables ==
    {ShapeTable(rows, FillColumns, FALSE) : rows \in SeqsUpTo(FillRowPool, MaxRows)}
    \cup {ShapeTable(rows, FillColumns, FALSE) :
            rows \in SeqsFromTo(FillKeyPool, MaxRows + 1, MaxKeyRows)}
    \cup {ShapeTable(rows, FillColumns, TRUE) : rows \in SeqsUpTo(FillKeyPool, MaxRows)}
    \cup {ShapeTable(<<FillRow(x)>>, Without(FillColumns, drop), extra) :
            x \in {FillBase, FillWorst},
            drop \in SUBSET Range(FillColumns) \ {{}},
            extra \in BOOLEAN}

\* Raw prices cells.
PriceDates == {DT(0, 0), DT(10, 0), DT(24, 0), S(junk)}
PriceSymbols == {S(aapl), S(<<" ","A","A","P","L">>), S(msft), S(blank), NaN}
PriceCloses == {N(1), N(0), S(junk)}
PriceBase == <<DT(0, 0), S(aapl), N(1)>>
PriceWorst == <<S(junk), S(blank), N(0)>>

PriceRow(x) == (c_date :> x[1]) @@ (c_symbol :> x[2]) @@ (c_close :> x[3])

PriceRowPool ==
    {PriceRow(x) : x \in {y \in PriceDates \X PriceSymbols \X PriceCloses :
                          Deviations(y, PriceBase) <= 2}}

PriceKeyPool ==
    {PriceRow(<<d, sym, N(1)>>) :
        d \in {DT(0, 0), DT(24, 0)}, sym \in {S(aapl), S(msft)}}

PriceColumns == <<c_date, c_symbol, c_close>>

\* a prices row with a timestamp cell
WithTimestamp(row, ts) == row @@ (c_timestamp :> ts)

PriceTables ==
    {ShapeTable(rows, PriceColumns, FALSE) : rows \in SeqsUpTo(PriceRowPool, MaxRows)}
    \cup {ShapeTable(rows, PriceColumns, FALSE) :
            rows \in SeqsFromTo(PriceKeyPool, MaxRows + 1, MaxKeyRows - 1)}
    \cup {ShapeTable(rows, PriceColumns, TRUE) : rows \in SeqsUpTo(PriceKeyPool, MaxRows)}
    \cup {ShapeTable([i \in DOMAIN rows |-> WithTimestamp(rows[i], ts)],
                     PriceColumns \o <<c_timestamp>>, FALSE) :
            rows \in SeqsUpTo(PriceKeyPool, MaxRows), ts \in {DT(1, 0), S(junk)}}
    \cup {ShapeTable(<<PriceRow(x)>>, Without(PriceColumns, drop), extra) :
            x \in {PriceBase, PriceWorst},
            drop \in SUBSET Range(PriceColumns) \ {{}},
            extra \in BOOLEAN}

\* Raw fees cells.
FeeTradeIds == {S(t1), S(t2), S(blank), NaN}
FeeFees == {N(-1), N(0), S(<<"-","2">>), N(1), S(junk)}
FeeRebates == {N(0), N(1), N(-1), NaN}
FeeBase == <<S(t1), N(-1), N(0)>>
FeeWorst == <<NaN, N(1), N(-1)>>

FeeRow(x) == (c_trade_id :> x[1]) @@ (c_fees :> x[2]) @@ (c_rebates :> x[3])

FeeRowPool ==
    {FeeRow(x) : x \in {y \in FeeTradeIds \X FeeFees \X FeeRebates :
                        Deviations(y, FeeBase) <= 2}}

FeeColumns == <<c_trade_id, c_fees, c_rebates>>

\* The same columns as a file may spell them: padded, in upper case.
FeeColumnsSpelled == <<<<"T","r","a","d","e","_","I","D">>, <<" ","f","e","e","s"," ">>,
                       <<"R","E","B","A","T","E","S">>>>

\* table with its columns renamed, position by position
Respell(df, names) ==
    DF(names, [i \in DOMAIN df.rows |->
                 [c \in Range(names) |->
                    df.rows[i][df.columns[CHOOSE k \in DOMAIN names : names[k] = c]]]])

\* a fees file laid out by FeesSchema.optional_cols
FeeOptionalTable ==
    DF(FeesSchema.optional_cols,
       <<[c \in Range(FeesSchema.optional_cols) |->
            IF c = c_trade_id THEN S(t1) ELSE N(0)]>>)

FeeTables ==
    {ShapeTable(rows, FeeColumns, FALSE) : rows \in SeqsUpTo(FeeRowPool, MaxRows)}
    \cup {ShapeTable(rows, FeeColumns, TRUE) :
            rows \in SeqsUpTo({FeeRow(FeeBase), FeeRow(FeeWorst)}, MaxRows)}
    \cup {Respell(ShapeTable(<<FeeRow(x)>>, FeeColumns, FALSE), FeeColumnsSpelled) :
            x \in {FeeBase, FeeWorst}}
    \cup {ShapeTable(<<FeeRow(x)>>, Without(FeeColumns, drop), extra) :
            x \in {FeeBase, FeeWorst},
            drop \in SUBSET Range(FeeColumns) \ {{}},
            extra \in BOOLEAN}
    \cup {FeeOptionalTable}

Suffixes == {suffix_csv, <<".","C","S","V">>, suffix_parquet,
             <<".","P","a","r","q","u","e","t">>, <<".","t","x","t">>,
             <<".","X","L","S","X">>, <<>>}

\* Paths that do not lead to a decoded table.
BrokenPaths ==
    {Path(e, suf, c, EmptyDF) : e \in BOOLEAN, suf \in Suffixes, c \in BOOLEAN}
    \ {Path(TRUE, suf, FALSE, EmptyDF) :
         suf \in {x \in Suffixes : StrLower(x) \in {suffix_csv, suffix_parquet}}}

\* Readable .csv files holding the tables, and the same as .PARQUET for a few.
FilesOf(tables) ==
    {Path(TRUE, suffix_csv, FALSE, t) : t \in tables}
    \cup {Path(TRUE, <<".","P","a","r","q","u","e","t">>, FALSE, t) :
            t \in {x \in tables : Len(x.rows) = 0}}

TzChoices == {NoTz, Zone(-5), Zone(9)}
TieOrders == {"stable", "reverse"}

\* ----------------------------------------------------------------- actions
Idle == [op |-> "idle", path |-> Path(FALSE, <<>>, FALSE, EmptyDF),
         tz |-> NoTz, ties |-> "stable"]
NoResult == [out |-> "none", kind |-> "", name |-> "", text |-> "", vals |-> <<>>,
             df |-> EmptyDF, stages |-> <<>>]

Call(op, path, tz, ties) == [op |-> op, path |-> path, tz |-> tz, ties |-> ties]

\* a direct call of read_any(path)
ReadAny ==
    /\ call = Idle
    /\ \E path \in BrokenPaths \cup FilesOf({t \in FeeTables : Len(t.rows) <= 1}) :
         /\ call' = Call("read_any", path, NoTz, "stable")
         /\ result' = read_any(path)
    /\ UNCHANGED schemas

LoadFills ==
    /\ call = Idle
    /\ \E path \in BrokenPaths \cup FilesOf(FillTables), tz \in TzChoices,
          ties \in TieOrders :
         /\ call' = Call("load_fills", path, tz, ties)
         /\ result' = load_fills(path, tz, ties)
    /\ UNCHANGED schemas

LoadPrices ==
    /\ call = Idle
    /\ \E path \in BrokenPaths \cup FilesOf(PriceTables), tz \in TzChoices :
         /\ call' = Call("load_prices", path, tz, "stable")
         /\ result' = load_prices(path, tz)
    /\ UNCHANGED schemas

LoadFees ==
    /\ call = Idle
    /\ \E path \in BrokenPaths \cup FilesOf(FeeTables) :
         /\ call' = Call("load_fees", path, NoTz, "stable")
         /\ result' = load_fees(path)
    /\ UNCHANGED schemas

Next == ReadAny \/ LoadFills \/ LoadPrices \/ LoadFees

\* The program as shipped: the registry is what schemas.py defines.
Init ==
    /\ schemas = ShippedSchemas
    /\ call = Idle
    /\ result = NoResult

Spec == Init /\ [][Next]_vars

\* The program with the registry completed by the required column sets of the
\* specification.
InitDeclared ==
    /\ schemas = DeclaredSchemas
    /\ call = Idle
    /\ result = NoResult

SpecDeclared == InitDeclared /\ [][Next]_vars

\* ------------------------------------------------------------------ claims
LoadOps == {"load_fills", "load_prices", "load_fees"}
DecoderStages == {"read_csv", "read_parquet"}
SupportedSuffix(path) == StrLower(path.suffix) \in {suffix_csv, suffix_parquet}

\* The call got a table from the decoder.
Decoded == /\ call.op # "idle"
           /\ call.path.exists
           /\ ~call.path.corrupt
           /\ SupportedSuffix(call.path)

\* The table the pipeline works on: the decoded table, for load_fees with
\* its column names normalized.
Batch == IF call.op = "load_fees" THEN RenameColumns(call.path.content)
         ELSE call.path.content

Pairs(n) == {p \in (1..n) \X (1..n) : p[1] < p[2]}

ValidFillRow(r) ==
    /\ r[c_timestamp].t = "ts"
    /\ r[c_side] \in {S(<<"B">>), S(<<"S">>)}
    /\ r[c_qty].t = "num" /\ r[c_qty].n > 0
    /\ r[c_price].t = "num" /\ r[c_price].n > 0

ValidPriceRow(r) ==
    /\ r[c_date].t = "date"
    /\ r[c_close].t = "num" /\ r[c_close].n > 0

ValidFeeRow(r) ==
    /\ r[c_fees].t = "num" /\ r[c_fees].n <= 0
    /\ r[c_rebates].t = "num" /\ r[c_rebates].n >= 0

C2_RequiredColsLookupSucceeds ==
    /\ call.op \in LoadOps => result.kind # "AttributeError"
    /\ (call.op # "idle" /\ HasAttr("FEES", "required_cols"))
         => schemas.FEES.required_cols = <<c_trade_id, c_fees, c_rebates>>

\* C9: read_any checks existence first.  A path that does not exist fails
\* with FileNotFoundError whatever its suffix and no decoder runs; an
\* existing path whose lower-cased suffix is neither .csv nor .parquet fails
\* with "Unsupported document type" naming that suffix and no decoder runs; a
\* decoder runs only for an existing path with suffix .csv or .parquet in
\* any letter case.
C9_ExistenceThenSuffix ==
    call.op # "idle" =>
        /\ ~call.path.exists =>
             /\ result.out = "raise"
             /\ result.kind = "FileNotFoundError"
             /\ Range(result.stages) \cap DecoderStages = {}
        /\ (call.path.exists /\ ~SupportedSuffix(call.path)) =>
             /\ result.out = "raise"
             /\ result.kind = "ValueError"
             /\ result.text = "Unsupported document type"
             /\ result.vals = <<S(StrLower(call.path.suffix))>>
             /\ Range(result.stages) \cap DecoderStages = {}
        /\ Range(result.stages) \cap DecoderStages # {} =>
             /\ call.path.exists
             /\ SupportedSuffix(call.path)
        /\ (call.path.exists /\ SupportedSuffix(call.path)) =>
             Range(result.stages) \cap DecoderStages # {}

\* C9 witness: read_any was called on a path with suffix .csv that does not
\* exist, and failed with FileNotFoundError.
C9_Witness ==
    /\ call.op = "read_any"
    /\ ~call.path.exists
    /\ call.path.suffix = suffix_csv
    /\ result.kind = "FileNotFoundError"

\* The column that holds the required string field of the call's kind.
KeyColumn == IF call.op = "load_prices" THEN c_symbol ELSE c_trade_id

\* The required columns of the call's kind, as the specification gives them.
RequiredColumns ==
    CASE call.op = "load_fills" -> DeclaredRequiredCols.FILLS
      [] call.op = "load_prices" -> DeclaredRequiredCols.PRICES
      [] OTHER -> DeclaredRequiredCols.FEES

\* A raw cell that is absent, or empty once trimmed.
MissingOrBlank(c) == c.t = "nan" \/ (c.t = "str" /\ StrStrip(c.s) = <<>>)
BlankText(c) == c.t = "str" /\ StrStrip(c.s) = <<>>

\* C3: a batch in which some row's required string field (trade_id for fills
\* and fees, symbol for prices) is absent, empty or blank is rejected by the
\* load with a validation error.
C3_MissingOrEmptyKeyRejected ==
    ( /\ call.op \in LoadOps
      /\ Decoded
      /\ KeyColumn \in Range(Batch.columns)
      /\ \E i \in DOMAIN Batch.rows : MissingOrBlank(Batch.rows[i][KeyColumn]) )
    => (result.out = "raise" /\ result.kind = "DataValidationError")

\* With the registry completed (see C3): a required string cell that is empty
\* or blank text is rejected with a validation error.
BlankKeyRejected ==
    ( /\ call.op \in LoadOps
      /\ Decoded
      /\ KeyColumn \in Range(Batch.columns)
      /\ \E i \in DOMAIN Batch.rows : BlankText(Batch.rows[i][KeyColumn]) )
    => (result.out = "raise" /\ result.kind = "DataValidationError")

\* With the registry completed (see C3): no returned table holds the text
\* "nan" (or "NAN") in its required string column in place of an absent cell.
NoPlaceholderKeyReturned ==
    ( /\ call.op \in LoadOps
      /\ result.out = "return" )
    => \A i \in DOMAIN Batch.rows : Batch.rows[i][KeyColumn].t # "nan"

\* The batch after the kind's column conversions (all required columns
\* present).
Coerced ==
    CASE call.op = "load_fills" -> CoerceFills(Batch)
      [] call.op = "load_prices" -> CoercePrices(Batch)
      [] OTHER -> CoerceFees(Batch)

AllRequiredPresent == Range(RequiredColumns) \subseteq Range(Batch.columns)

Rule(bad, text) == [bad |-> bad, text |-> text]

EmptyKey(df, col) ==
    \E i \in DOMAIN df.rows : isna(df.rows[i][col]) \/ df.rows[i][col].s = <<>>
Unparsed(df, col) == \E i \in DOMAIN df.rows : isna(df.rows[i][col])
NotPositive(df, col) ==
    \E i \in DOMAIN df.rows : isna(df.rows[i][col]) \/ df.rows[i][col].n <= 0
RepeatedKey(df, cols) ==
    \E p \in Pairs(Len(df.rows)) :
        \A k \in DOMAIN cols : df.rows[p[1]][cols[k]] = df.rows[p[2]][cols[k]]

FillRules(df) ==
    <<Rule(EmptyKey(df, c_trade_id), "trade_id has empty/NaN values"),
      Rule(RepeatedKey(df, <<c_trade_id>>), "duplicate trade_ids"),
      Rule(Unparsed(df, c_timestamp), "timestamp has unparsable values"),
      Rule(\E i \in DOMAIN df.rows : df.rows[i][c_side] \notin {S(<<"B">>), S(<<"S">>)},
           "wrong or missing side values"),
      Rule(NotPositive(df, c_qty), "qty must be numeric and > 0"),
      Rule(NotPositive(df, c_price), "price must be numeric and > 0")>>

\* prices rules in the order the specification lists them
PriceRulesAsSpecified(df) ==
    <<Rule(EmptyKey(df, c_symbol), "symbol has empty/NaN values"),
      Rule(Unparsed(df, c_date), "date has unparsable values"),
      Rule(NotPositive(df, c_close), "close must be numeric and > 0"),
      Rule(RepeatedKey(df, <<c_date, c_symbol>>), "duplicate rows for (date, symbol)")>>

\* prices rules with the date rule ahead of the symbol rule
PriceRulesDateFirst(df) ==
    <<Rule(Unparsed(df, c_date), "date has unparsable values"),
      Rule(EmptyKey(df, c_symbol), "symbol has empty/NaN values"),
      Rule(NotPositive(df, c_close), "close must be numeric and > 0"),
      Rule(RepeatedKey(df, <<c_date, c_symbol>>), "duplicate rows for (date, symbol)")>>

FeeRules(df) ==
    <<Rule(EmptyKey(df, c_trade_id), "trade_id has empty/NaN values"),
      Rule(\E i \in DOMAIN df.rows : isna(df.rows[i][c_fees]) \/ df.rows[i][c_fees].n > 0,
           "fees contain NaNs or are the wrong sign"),
      Rule(\E i \in DOMAIN df.rows :
              isna(df.rows[i][c_rebates]) \/ df.rows[i][c_rebates].n < 0,
           "rebates contain NaNs or are the wrong sign")>>

Violated(rules) == {i \in DOMAIN rules : rules[i].bad}
Earliest(rules) == rules[CHOOSE i \in Violated(rules) : \A j \in Violated(rules) : i <= j]

RulesAsSpecified ==
    CASE call.op = "load_fills" -> FillRules(Coerced)
      [] call.op = "load_prices" -> PriceRulesAsSpecified(Coerced)
      [] OTHER -> FeeRules(Coerced)

RulesAsCoded ==
    CASE call.op = "load_fills" -> FillRules(Coerced)
      [] call.op = "load_prices" -> PriceRulesDateFirst(Coerced)
      [] OTHER -> FeeRules(Coerced)

\* C4: when a coerced batch violates more than one rule, the validator fails
\* with the error of the earliest violated rule in the order: required string
\* field non-empty, fills trade_id unique, temporal field parseable, fills
\* side, numeric sign rules (qty then price; close; fees then rebates),
\* prices (date, symbol) unique.
C4_EarliestRuleReported ==
    ( /\ call.op \in LoadOps
      /\ Decoded
      /\ AllRequiredPresent
      /\ Cardinality(Violated(RulesAsSpecified)) >= 2 )
    => /\ result.out = "raise"
       /\ result.kind = "DataValidationError"
       /\ result.text = Earliest(RulesAsSpecified).text

\* With the registry completed (see C4): a batch that violates one or more
\* rules fails with the error of the earliest violated rule, where for prices
\* the date rule comes before the symbol rule.
EarliestRuleReportedDateFirst ==
    ( /\ call.op \in LoadOps
      /\ Decoded
      /\ AllRequiredPresent
      /\ Violated(RulesAsCoded) # {} )
    => /\ result.out = "raise"
       /\ result.kind = "DataValidationError"
       /\ result.text = Earliest(RulesAsCoded).text

\* The required columns the batch lacks.
Absent == Range(RequiredColumns) \ Range(Batch.columns)

IsRuleStage(st) == st \in {"coerce", "tz_convert", "rule:trade_id", "rule:unique",
                           "rule:timestamp", "rule:side", "rule:qty", "rule:price",
                           "rule:date", "rule:symbol", "rule:close", "rule:fees",
                           "rule:rebates"}

\* C5: loading a table that lacks required columns fails with a structural
\* error, of a kind other than DataValidationError, whose message names
\* exactly the absent required columns, before any cell is coerced and
\* before any row-level rule is evaluated.
C5_MissingColumnsStructuralError ==
    ( /\ call.op \in LoadOps
      /\ Decoded
      /\ Absent # {} )
    => /\ result.out = "raise"
       /\ result.kind # "DataValidationError"
       /\ Range(result.vals) = {S(c) : c \in Absent}
       /\ \A i \in DOMAIN result.stages : ~IsRuleStage(result.stages[i])

\* With the registry completed (see C5): the same load fails with a
\* DataValidationError that names exactly the absent required columns, each
\* once, before any cell is coerced or rule evaluated.
MissingColumnsDataValidationError ==
    ( /\ call.op \in LoadOps
      /\ Decoded
      /\ Absent # {} )
    => /\ result.out = "raise"
       /\ result.kind = "DataValidationError"
       /\ result.text = "missing required columns"
       /\ Range(result.vals) = {S(c) : c \in Absent}
       /\ Len(result.vals) = Cardinality(Absent)
       /\ \A i \in DOMAIN result.stages : ~IsRuleStage(result.stages[i])

\* The normalized (date, symbol) of a raw prices row: the calendar date, the
\* symbol trimmed and in upper case.
NormalizedKey(row) ==
    <<to_date(row[c_date]), str_upper(str_strip(astype_str(row[c_symbol])))>>

\* A raw prices batch whose every cell is well-formed on its own.
WellFormedPrices(df) ==
    \A i \in DOMAIN df.rows :
        /\ df.rows[i][c_date].t = "dt"
        /\ ~MissingOrBlank(df.rows[i][c_symbol])
        /\ ~isna(to_numeric(df.rows[i][c_close]))
        /\ to_numeric(df.rows[i][c_close]).n > 0

RepeatedNormalizedKey(df) ==
    \E p \in Pairs(Len(df.rows)) :
        NormalizedKey(df.rows[p[1]]) = NormalizedKey(df.rows[p[2]])

\* C10: load_prices rejects a batch whenever two rows have the same
\* (date, symbol) after normalization, even if the raw cells differ, and
\* accepts an otherwise valid batch whenever every two rows differ in their
\* normalized date or symbol.
C10_UniquenessOnNormalizedKeys ==
    ( /\ call.op = "load_prices"
      /\ Decoded
      /\ AllRequiredPresent )
    => /\ RepeatedNormalizedKey(Batch) => result.out = "raise"
       /\ (WellFormedPrices(Batch) /\ ~RepeatedNormalizedKey(Batch))
            => result.out = "return"

\* With the registry completed (see C10): two rows whose raw keys differ but
\* whose normalized keys agree were loaded and the batch was rejected as a
\* duplicate.
RawDistinctKeysRejectedAsDuplicate ==
    /\ call.op = "load_prices"
    /\ Decoded
    /\ AllRequiredPresent
    /\ Len(Batch.rows) = 2
    /\ Batch.rows[1] # Batch.rows[2]
    /\ result.text = "duplicate rows for (date, symbol)"

\* The normalized batch as the load returns it: coerced, and for fills with
\* the timestamps shown in the caller's zone.
Normalized ==
    IF call.op = "load_fills" /\ call.tz.given
    THEN TzConvertColumn(Coerced, c_timestamp, call.tz.off)
    ELSE Coerced

IsPermutation(a, b) ==
    /\ Len(a) = Len(b)
    /\ \E f \in Permutations(DOMAIN a) : \A i \in DOMAIN a : a[i] = b[f[i]]

StrLessEq(x, y) == ~StrLess(y, x)

Repeated(seq) == {seq[p[1]] : p \in {q \in Pairs(Len(seq)) : seq[q[1]] = seq[q[2]]}}
NoRepeats(seq) == Repeated(seq) = {}

DateSymbolPairs(df) ==
    [i \in DOMAIN df.rows |-> <<df.rows[i][c_date], df.rows[i][c_symbol]>>]

\* the fills part of the enumeration: duplicate trade_ids and bad sides
FillsErrorsEnumerate ==
    /\ (call.op = "load_fills" /\ result.text = "duplicate trade_ids") =>
         /\ NoRepeats(result.vals)
         /\ Range(result.vals) = Repeated(Column(Coerced, c_trade_id))
    /\ (call.op = "load_fills" /\ result.text = "wrong or missing side values") =>
         /\ NoRepeats(result.vals)
         /\ Range(result.vals)
              = Range(Column(Coerced, c_side)) \ {S(<<"B">>), S(<<"S">>)}

====
